---- MODULE Spec2Model ----
(***************************************************************************)
(* The teaching scripts of concurrency-parallelism-and-asyncio as one      *)
(* state machine.  `script` selects the script that runs:                  *)
(*   sync, asyncio_only                     one get_and_scrape_pages loop  *)
(*   multiprocessing_only,                                                 *)
(*   asyncio_with_multiprocessing           main() splits NUM_PAGES over a *)
(*                                          ProcessPoolExecutor            *)
(*   genre_sync, genre_threads, genre_async the write_genre scripts of     *)
(*                                          concurrency/                   *)
(*   hello                                  say_hello of pytest_asyncio/   *)
(*   pool_threads                           parallelism/threads.py         *)
(* The shared output file is a sequence of characters, each carrying the   *)
(* loop and unit that produced it.  Every open(..., "a+") handle has the   *)
(* write buffer of Python's io layer; the bytes of one raw write reach the *)
(* file as one append (O_APPEND).                                          *)
(***************************************************************************)
EXTENDS Integers, Sequences, FiniteSets, TLC

VARIABLES
    script,             \* which script runs
    numPages,           \* NUM_PAGES, the total asked for
    numCores,           \* NUM_CORES = cpu_count()
    mainPc,             \* position of main() / of the __main__ block
    mainExc,            \* the exception main() ended with, or "none"
    mainI,              \* main's loop variable i
    pagesPerCore,       \* PAGES_PER_CORE
    pagesForFinalCore,  \* PAGES_FOR_FINAL_CORE
    loops,              \* the get_and_scrape_pages calls, in submission order
    file,               \* content of OUTPUT_FILE
    file0,              \* content of OUTPUT_FILE before the run
    units,              \* the write_genre calls of the genre scripts
    gfiles,             \* the per-unit files new_file{i}.txt, by path
    gfiles0,            \* the per-unit files before the run
    hello,              \* the say_hello call
    pool                \* the ThreadPoolExecutor of parallelism/threads.py

vars == <<script, numPages, numCores, mainPc, mainExc, mainI, pagesPerCore,
          pagesForFinalCore, loops, file, file0, units, gfiles, gfiles0, hello,
          pool>>

(***************************************************************************)
(* Bounds of the model and constants of the program.                       *)
(***************************************************************************)
\* NUM_PAGES of the scripts; the partition is explored for every total up to it.
NUM_PAGES == 100

\* Largest cpu_count() the partition is explored for.
MaxPartCores == 24

\* Largest total and process count of the runs in which the loops execute.
MaxPages == 4

MaxCores == 3

\* Capacity, in characters, of a file handle's write buffer.
BufCap == 4

\* range(5) of the genre scripts.
NumUnits == 5

SingleLoopScripts == {"sync", "asyncio_only"}

ProcessSplitScripts == {"multiprocessing_only", "asyncio_with_multiprocessing"}

SharedFileScripts == SingleLoopScripts \cup ProcessSplitScripts

GenreScripts == {"genre_sync", "genre_threads", "genre_async"}

Units == 0 .. (NumUnits - 1)

\* Largest cpu_count() the thread pool is explored for.
MaxPoolCores == 2

\* len(pow_list), the futures of parallelism/threads.py.
NumFutures == 16

\* The futures, by their position in pow_list.
Futures == 0 .. (NumFutures - 1)

Digits == <<"0", "1", "2", "3", "4", "5", "6", "7", "8", "9">>

\* str(i) of a natural number, as the f-strings format it.
RECURSIVE Str(_)
Str(i) == IF i < 10 THEN <<Digits[i + 1]>>
          ELSE Str(i \div 10) \o <<Digits[(i % 10) + 1]>>

\* The variant that leaves {i} out of the name.
FileName_Unnumbered(i) == <<"new_file", ".txt">>

\* f"./sync/new_file{i}.txt" (./threading/, ./async/): the path of unit i
\* within the directory of its script.
FileName(i) == <<"new_file">> \o Str(i) \o <<".txt">>

\* The paths the units of a genre script are given.
Paths == {FileName(i) : i \in Units}

(***************************************************************************)
(* Sequences helpers.                                                      *)
(***************************************************************************)
\* The positions of s whose character is ch.
PositionsOf(s, ch) == {p \in 1 .. Len(s) : s[p].ch = ch}

\* The values a reader of the text s finds: the non-empty runs of characters
\* between separators (cur is the run being read).
RECURSIVE ValuesOf(_, _)
ValuesOf(s, cur) ==
    IF s = <<>> THEN (IF cur = <<>> THEN {} ELSE {cur})
    ELSE IF Head(s).ch \in {"\t", "\n"}
         THEN (IF cur = <<>> THEN {} ELSE {cur}) \cup ValuesOf(Tail(s), <<>>)
         ELSE ValuesOf(Tail(s), Append(cur, Head(s).ch))

(***************************************************************************)
(* The partition of main().                                                *)
(***************************************************************************)
\* The variant that rounds the quotient up.
PAGES_PER_CORE_Ceiling(n, c) == (n + c - 1) \div c

\* floor(NUM_PAGES / NUM_CORES)
PAGES_PER_CORE(n, c) == n \div c

\* The variant that forgets the base share of the final core.
PAGES_FOR_FINAL_CORE_OnlyRemainder(n, c) == n % PAGES_PER_CORE(n, c)

\* The variant that adds the remainder of the division by NUM_CORES on top.
PAGES_FOR_FINAL_CORE_RemainderTwice(n, c) ==
    PAGES_PER_CORE(n, c) + (n % PAGES_PER_CORE(n, c)) + (n % c)

\* PAGES_PER_CORE + NUM_PAGES % PAGES_PER_CORE; the caller has excluded
\* PAGES_PER_CORE = 0, where Python raises ZeroDivisionError.
PAGES_FOR_FINAL_CORE(n, c) == PAGES_PER_CORE(n, c) + (n % PAGES_PER_CORE(n, c))

(***************************************************************************)
(* Pages, titles and characters.                                           *)
(***************************************************************************)
Alphabet == <<"a", "b", "c", "d", "e", "f", "g", "h", "i", "j", "k", "l", "m",
              "n", "o", "p", "q", "r", "s", "t", "u", "v", "w", "x", "y", "z">>

\* The h1 text of the page that request g of the batch receives: the
\* deterministic stand-in for the fetch-extract step.  One or two characters,
\* different for different g.
Title(g) ==
    IF g % 2 = 0 THEN <<Alphabet[g + 1]>> ELSE <<Alphabet[g + 1], Alphabet[g + 1]>>

\* The position in the batch of unit k of loop w: the loops before w were
\* each given pagesPerCore pages.
GlobalIndex(w, k) == (w - 1) * pagesPerCore + k

\* The characters that f.write(s) of unit k of loop w hands to the handle.
Tagged(w, k, s) == [j \in 1 .. Len(s) |-> [w |-> w, k |-> k, ch |-> s[j]]]

\* title + "\t" of unit k of loop w, as handed to f.write.
UnitText(w, k) == Tagged(w, k, Title(GlobalIndex(w, k)) \o <<"\t">>)

\* What a GET can come back with: a page with its h1, an error status, or a
\* page without an h1 element.
Responses == {"ok", "status_429", "no_h1"}

\* A call of get_and_scrape_pages(n, OUTPUT_FILE) that has opened the file and
\* stands at the top of its for loop: k units written, gets GETs issued,
\* nothing buffered.
NewLoop(n) ==
    [num_pages |-> n, pc |-> "loop", k |-> 0, gets |-> 0, resp |-> "none",
     buf |-> <<>>, exc |-> "none"]

\* A line a previous run left in the file.
OldLine ==
    <<[w |-> 0, k |-> 0, ch |-> "z"], [w |-> 0, k |-> 0, ch |-> "\t"],
      [w |-> 0, k |-> 0, ch |-> "\n"]>>

(***************************************************************************)
(* The write buffer of a file handle.  BufferedWrite gives <<buffer, file>>*)
(* after write(s): s is kept in the buffer while it fits; otherwise the     *)
(* buffered bytes go to the file in one raw write and s starts the buffer  *)
(* anew.  (A title with its tab is far shorter than the buffer, so the     *)
(* branch for one write larger than the whole buffer is not taken.)        *)
(***************************************************************************)
\* The variant that fills the buffer to its capacity and writes it out,
\* splitting s.
BufferedWriteSplitting(buf, f, s) ==
    LET all == buf \o s
    IN  IF Len(all) <= BufCap THEN <<all, f>>
        ELSE <<SubSeq(all, BufCap + 1, Len(all)), f \o SubSeq(all, 1, BufCap)>>

BufferedWrite(buf, f, s) ==
    IF Len(buf) + Len(s) <= BufCap THEN <<buf \o s, f>>
    ELSE <<s, f \o buf>>

\* The variant whose close() after an exception drops what is buffered.
CloseDropping(buf, f, exc) == IF exc = "none" THEN f \o buf ELSE f

\* The variant of a handle opened without append mode: the raw write goes to
\* the start of the file, over what is there.
CloseAtStart(buf, f, exc) ==
    IF Len(buf) >= Len(f) THEN buf ELSE buf \o SubSeq(f, Len(buf) + 1, Len(f))

\* close() of a handle whose with-block ended with exception exc (or "none"):
\* what is buffered goes to the file in one raw write, either way.
Close(buf, f, exc) == f \o buf

(***************************************************************************)
(* Initial states.                                                         *)
(***************************************************************************)
\* The arguments say_hello is called with.
HelloNames ==
    {[type |-> "str", text |-> "Robert Paulson"],
     [type |-> "str", text |-> "Seven of Nine"],
     [type |-> "str", text |-> ""],
     [type |-> "int", text |-> "19"],
     [type |-> "set", text |-> "{'name', 'Diane'}"],
     [type |-> "list", text |-> "[]"]}

NoUnits == [i \in Units |-> [pc |-> "idle", genre |-> "none", exc |-> "none"]]

NoFiles == [p \in Paths |-> [exists |-> FALSE, content |-> <<>>]]

OldFiles == [p \in Paths |-> [exists |-> TRUE, content |-> <<"old1", "old2">>]]

\* The executor before it is made: no worker, next the first future the
\* workers will take, nothing running, finished, yielded or printed.
NoPool == [max_workers |-> 0, next |-> 0, running |-> {}, finished |-> {},
           yielded |-> {}, printed |-> 0]

NoHello == [name |-> [type |-> "none", text |-> ""], pc |-> "idle", out |-> <<>>,
            exc |-> "none"]

InitCommon ==
    /\ mainPc = "start"
    /\ mainExc = "none"
    /\ mainI = 0
    /\ pagesPerCore = 0
    /\ pagesForFinalCore = 0
    /\ loops = <<>>
    /\ units = NoUnits
    /\ pool = NoPool

InitShared ==
    /\ script \in SharedFileScripts
    /\ numPages \in 0 .. MaxPages
    /\ numCores \in (IF script \in ProcessSplitScripts THEN 1 .. MaxCores ELSE {1})
    /\ file0 \in {<<>>, OldLine}
    /\ file = file0
    /\ gfiles0 = NoFiles
    /\ gfiles = gfiles0
    /\ hello = NoHello

InitGenre ==
    /\ script \in GenreScripts
    /\ numPages = 0
    /\ numCores = 1
    /\ file0 = <<>>
    /\ file = file0
    /\ gfiles0 \in {NoFiles, OldFiles}
    /\ gfiles = gfiles0
    /\ hello = NoHello

InitHello ==
    /\ script = "hello"
    /\ numPages = 0
    /\ numCores = 1
    /\ file0 = <<>>
    /\ file = file0
    /\ gfiles0 = NoFiles
    /\ gfiles = gfiles0
    /\ \E n \in HelloNames : hello = [NoHello EXCEPT !.name = n, !.pc = "called"]

Init ==
    /\ InitCommon
    /\ (InitShared \/ InitGenre \/ InitHello)

\* parallelism/threads.py on a machine of 1 .. MaxPoolCores processors.
InitPool ==
    /\ InitCommon
    /\ script = "pool_threads"
    /\ numPages = 0
    /\ numCores \in 1 .. MaxPoolCores
    /\ file0 = <<>>
    /\ file = file0
    /\ gfiles0 = NoFiles
    /\ gfiles = gfiles0
    /\ hello = NoHello

\* The states main() of a process-split script can start in, for every total
\* up to NUM_PAGES and every process count up to MaxPartCores.
InitPartition ==
    /\ InitCommon
    /\ script \in ProcessSplitScripts
    /\ numPages \in 0 .. NUM_PAGES
    /\ numCores \in 1 .. MaxPartCores
    /\ file0 = <<>>
    /\ file = file0
    /\ gfiles0 = NoFiles
    /\ gfiles = gfiles0
    /\ hello = NoHello

(***************************************************************************)
(* main() of the process-split scripts.                                    *)
(***************************************************************************)
\* NUM_PAGES .. PAGES_FOR_FINAL_CORE: the modulus raises ZeroDivisionError
\* when PAGES_PER_CORE is 0, before the executor exists.
MainPartition ==
    /\ script \in ProcessSplitScripts
    /\ mainPc = "start"
    /\ IF PAGES_PER_CORE(numPages, numCores) = 0
       THEN /\ mainPc' = "raised"
            /\ mainExc' = "ZeroDivisionError"
            /\ UNCHANGED <<pagesPerCore, pagesForFinalCore>>
       ELSE /\ mainPc' = "submit"
            /\ pagesPerCore' = PAGES_PER_CORE(numPages, numCores)
            /\ pagesForFinalCore' = PAGES_FOR_FINAL_CORE(numPages, numCores)
            /\ UNCHANGED mainExc
    /\ UNCHANGED <<script, numPages, numCores, mainI, loops, file, file0, units,
                   gfiles, gfiles0, hello, pool>>

\* for i in range(NUM_CORES - 1): executor.submit(..., num_pages=PAGES_PER_CORE)
MainSubmit ==
    /\ mainPc = "submit"
    /\ mainI < numCores - 1
    /\ loops' = Append(loops, NewLoop(pagesPerCore))
    /\ mainI' = mainI + 1
    /\ UNCHANGED <<script, numPages, numCores, mainPc, mainExc, pagesPerCore,
                   pagesForFinalCore, file, file0, units, gfiles, gfiles0, hello,
                   pool>>

\* futures.append(executor.submit(..., PAGES_FOR_FINAL_CORE, ...))
MainSubmitFinal ==
    /\ mainPc = "submit"
    /\ mainI = numCores - 1
    /\ loops' = Append(loops, NewLoop(pagesForFinalCore))
    /\ mainPc' = "exit_pool"
    /\ UNCHANGED <<script, numPages, numCores, mainExc, mainI, pagesPerCore,
                   pagesForFinalCore, file, file0, units, gfiles, gfiles0, hello,
                   pool>>

Finished(w) == loops[w].pc \in {"done", "raised"}

\* Leaving the with-block of the executor: shutdown(wait=True) returns once
\* every submitted call has ended, normally or with an exception.
MainExitPool ==
    /\ mainPc = "exit_pool"
    /\ \A w \in 1 .. Len(loops) : Finished(w)
    /\ mainPc' = "wait"
    /\ UNCHANGED <<script, numPages, numCores, mainExc, mainI, pagesPerCore,
                   pagesForFinalCore, loops, file, file0, units, gfiles, gfiles0,
                   hello, pool>>

\* concurrent.futures.wait(futures): returns the done futures; an exception
\* stored in a future is not raised, and main() reads no result.
MainWait ==
    /\ mainPc = "wait"
    /\ \A w \in 1 .. Len(loops) : Finished(w)
    /\ mainPc' = "returned"
    /\ UNCHANGED <<script, numPages, numCores, mainExc, mainI, pagesPerCore,
                   pagesForFinalCore, loops, file, file0, units, gfiles, gfiles0,
                   hello, pool>>

(***************************************************************************)
(* main() of sync.py and asyncio_only.py: one call, in main's own process. *)
(***************************************************************************)
MainCall ==
    /\ script \in SingleLoopScripts
    /\ mainPc = "start"
    /\ loops' = <<NewLoop(numPages)>>
    /\ mainPc' = "call"
    /\ UNCHANGED <<script, numPages, numCores, mainExc, mainI, pagesPerCore,
                   pagesForFinalCore, file, file0, units, gfiles, gfiles0, hello,
                   pool>>

\* The call returns, or its exception leaves main().
MainAfterCall ==
    /\ mainPc = "call"
    /\ Finished(1)
    /\ mainPc' = (IF loops[1].pc = "done" THEN "returned" ELSE "raised")
    /\ mainExc' = loops[1].exc
    /\ UNCHANGED <<script, numPages, numCores, mainI, pagesPerCore,
                   pagesForFinalCore, loops, file, file0, units, gfiles, gfiles0,
                   hello, pool>>

(***************************************************************************)
(* get_and_scrape_pages: the four copies differ only in the HTTP and file  *)
(* libraries they call.                                                    *)
(***************************************************************************)
LoopFrame ==
    UNCHANGED <<script, numPages, numCores, mainPc, mainExc, mainI, pagesPerCore,
                pagesForFinalCore, file0, units, gfiles, gfiles0, hello, pool>>

\* The variant that issues the next GET while the page of the previous one
\* is still to be written.
LoopGetPipelined(w) ==
    /\ loops[w].pc \in {"loop", "page"}
    /\ loops[w].gets < loops[w].num_pages
    /\ \E r \in Responses :
         loops' = [loops EXCEPT ![w] =
                     IF r = "status_429"
                     THEN [@ EXCEPT !.pc = "closing", !.exc = "HTTPError",
                                    !.gets = @ + 1]
                     ELSE [@ EXCEPT !.pc = "page", !.resp = r, !.gets = @ + 1]]
    /\ UNCHANGED file
    /\ LoopFrame

\* The GET of unit k and the status check: a status above 399 raises, and the
\* exception leaves the for loop and the with-block.
LoopGet(w) ==
    /\ loops[w].pc = "loop"
    /\ loops[w].k < loops[w].num_pages
    /\ \E r \in Responses :
         loops' = [loops EXCEPT ![w] =
                     IF r = "status_429"
                     THEN [@ EXCEPT !.pc = "closing", !.exc = "HTTPError",
                                    !.gets = @ + 1]
                     ELSE [@ EXCEPT !.pc = "page", !.resp = r, !.gets = @ + 1]]
    /\ UNCHANGED file
    /\ LoopFrame

\* title = soup.find("h1").text; f.write(title + "\t").  Without an h1,
\* find() gives None and .text raises AttributeError.
LoopWrite(w) ==
    /\ loops[w].pc = "page"
    /\ IF loops[w].resp = "no_h1"
       THEN /\ loops' = [loops EXCEPT ![w].pc = "closing",
                                      ![w].exc = "AttributeError"]
            /\ UNCHANGED file
       ELSE LET k == loops[w].k
                r == BufferedWrite(loops[w].buf, file, UnitText(w, k))
            IN  /\ loops' = [loops EXCEPT ![w].pc = "loop", ![w].k = k + 1,
                                          ![w].buf = r[1]]
                /\ file' = r[2]
    /\ LoopFrame

\* The variant that leaves the loop without the newline.
LoopNewlineSkipped(w) ==
    /\ loops[w].pc = "loop"
    /\ loops[w].k = loops[w].num_pages
    /\ loops' = [loops EXCEPT ![w].pc = "closing"]
    /\ UNCHANGED file
    /\ LoopFrame

\* f.write("\n") after the last unit.
LoopNewline(w) ==
    /\ loops[w].pc = "loop"
    /\ loops[w].k = loops[w].num_pages
    /\ LET r == BufferedWrite(loops[w].buf, file,
                              Tagged(w, loops[w].k, <<"\n">>))
       IN  /\ loops' = [loops EXCEPT ![w].pc = "closing", ![w].buf = r[1]]
           /\ file' = r[2]
    /\ LoopFrame

\* The with-block closes the file, on return and on an exception alike:
\* close() flushes the buffer.
LoopClose(w) ==
    /\ loops[w].pc = "closing"
    /\ file' = Close(loops[w].buf, file, loops[w].exc)
    /\ loops' = [loops EXCEPT ![w].buf = <<>>,
                              ![w].pc = IF loops[w].exc = "none" THEN "done"
                                        ELSE "raised"]
    /\ LoopFrame

(***************************************************************************)
(* write_genre of concurrency/sync.py, threads.py and async.py.            *)
(***************************************************************************)
\* What the genrenator request can come back with: a JSON string, an error
\* status, or JSON of another shape.
GenreResponses == {"ok", "http_error", "not_str"}

\* The genre unit i receives: the deterministic stand-in for the request.
Genre(i) == Alphabet[i + 1]

UnitFrame ==
    UNCHANGED <<script, numPages, numCores, mainPc, mainExc, mainI, pagesPerCore,
                pagesForFinalCore, loops, file, file0, gfiles0, hello, pool>>

\* The variant whose event loop runs a task only when no earlier task is in
\* flight.
Running_OneAtATime(i) ==
    /\ units[i].pc \in {"get", "open", "write"}
    /\ script = "genre_async" => mainPc = "gather"
    /\ \A j \in Units : j < i => units[j].pc \notin {"get", "open", "write"}

\* Threads and tasks run whenever they are started; the sequential script
\* runs the unit main() has called; a task runs only while main() awaits
\* gather().
Running(i) ==
    /\ units[i].pc \in {"get", "open", "write"}
    /\ script = "genre_async" => mainPc = "gather"

\* The request and the decoding of its JSON body.
UnitGet(i) ==
    /\ Running(i)
    /\ units[i].pc = "get"
    /\ \E r \in GenreResponses :
         units' = [units EXCEPT ![i] =
                     IF r = "http_error"
                     THEN [@ EXCEPT !.pc = "raised", !.exc = "HTTPError"]
                     ELSE [@ EXCEPT !.pc = "open",
                                    !.genre = IF r = "ok" THEN Genre(i)
                                              ELSE "not_str"]]
    /\ UNCHANGED gfiles
    /\ UnitFrame

\* open(file_name, "w"): creates the file or truncates it.
UnitOpen(i) ==
    /\ Running(i)
    /\ units[i].pc = "open"
    /\ gfiles' = [gfiles EXCEPT ![FileName(i)] =
                                 [exists |-> TRUE, content |-> <<>>]]
    /\ units' = [units EXCEPT ![i].pc = "write"]
    /\ UnitFrame

\* new_file.write(genre) and the close at the end of the with-block; write()
\* of anything but a str raises TypeError and the file is closed as it is.
UnitWrite(i) ==
    /\ Running(i)
    /\ units[i].pc = "write"
    /\ IF units[i].genre = "not_str"
       THEN /\ units' = [units EXCEPT ![i].pc = "raised", ![i].exc = "TypeError"]
            /\ UNCHANGED gfiles
       ELSE /\ units' = [units EXCEPT ![i].pc = "done"]
            /\ gfiles' = [gfiles EXCEPT ![FileName(i)].content =
                                         <<units[i].genre>>]
    /\ UnitFrame

UnitEnded(i) == units[i].pc \in {"done", "raised", "cancelled"}

GenreMainFrame ==
    UNCHANGED <<script, numPages, numCores, pagesPerCore, pagesForFinalCore,
                loops, file, file0, gfiles, gfiles0, hello, pool>>

\* concurrency/sync.py: for i in range(5): write_genre(...).  The call of
\* unit i is made when unit i-1 has returned; an exception leaves the loop.
SyncCall ==
    /\ script = "genre_sync"
    /\ mainPc \in {"start", "loop"}
    /\ mainI < NumUnits
    /\ units[mainI].pc = "idle"
    /\ units' = [units EXCEPT ![mainI].pc = "get"]
    /\ mainPc' = "loop"
    /\ UNCHANGED <<mainExc, mainI>>
    /\ GenreMainFrame

SyncReturn ==
    /\ script = "genre_sync"
    /\ mainPc = "loop"
    /\ mainI < NumUnits
    /\ UnitEnded(mainI)
    /\ IF units[mainI].pc = "raised"
       THEN /\ mainPc' = "raised"
            /\ mainExc' = units[mainI].exc
            /\ UNCHANGED mainI
       ELSE /\ mainI' = mainI + 1
            /\ mainPc' = (IF mainI + 1 = NumUnits THEN "returned" ELSE "loop")
            /\ UNCHANGED mainExc
    /\ UNCHANGED units
    /\ GenreMainFrame

\* concurrency/threads.py: thread.start() for each of range(5).
ThreadStart ==
    /\ script = "genre_threads"
    /\ mainPc \in {"start", "start_loop"}
    /\ mainI < NumUnits
    /\ units' = [units EXCEPT ![mainI].pc = "get"]
    /\ mainI' = (IF mainI + 1 = NumUnits THEN 0 ELSE mainI + 1)
    /\ mainPc' = (IF mainI + 1 = NumUnits THEN "join_loop" ELSE "start_loop")
    /\ UNCHANGED mainExc
    /\ GenreMainFrame

\* The variant whose join() does not wait.
ThreadJoinable_NoWait(i) == TRUE

\* thread.join() returns when the thread has ended, by return or by an
\* exception (which threading prints and drops).
ThreadJoinable(i) == units[i].pc \in {"done", "raised"}

ThreadJoin ==
    /\ script = "genre_threads"
    /\ mainPc = "join_loop"
    /\ mainI < NumUnits
    /\ ThreadJoinable(mainI)
    /\ mainI' = mainI + 1
    /\ mainPc' = (IF mainI + 1 = NumUnits THEN "returned" ELSE "join_loop")
    /\ UNCHANGED <<mainExc, units>>
    /\ GenreMainFrame

\* concurrency/async.py: await asyncio.gather(*tasks) makes a task of each of
\* the 5 coroutines.
GatherStart ==
    /\ script = "genre_async"
    /\ mainPc = "start"
    /\ units' = [i \in Units |-> [units[i] EXCEPT !.pc = "get"]]
    /\ mainPc' = "gather"
    /\ UNCHANGED <<mainExc, mainI>>
    /\ GenreMainFrame

\* gather() gives its results when every task is done.
GatherReturn ==
    /\ script = "genre_async"
    /\ mainPc = "gather"
    /\ \A i \in Units : units[i].pc = "done"
    /\ mainPc' = "returned"
    /\ UNCHANGED <<mainExc, mainI, units>>
    /\ GenreMainFrame

\* The variant that raises only when every task has ended.
GatherRaise_AfterAll ==
    /\ script = "genre_async"
    /\ mainPc = "gather"
    /\ \A i \in Units : UnitEnded(i)
    /\ \E i \in Units :
         /\ units[i].pc = "raised"
         /\ mainExc' = units[i].exc
    /\ mainPc' = "raised"
    /\ UNCHANGED <<mainI, units>>
    /\ GenreMainFrame

\* gather() raises the first exception of a task into main() at once.
GatherRaise ==
    /\ script = "genre_async"
    /\ mainPc = "gather"
    /\ \E i \in Units :
         /\ units[i].pc = "raised"
         /\ mainExc' = units[i].exc
    /\ mainPc' = "raised"
    /\ UNCHANGED <<mainI, units>>
    /\ GenreMainFrame

InFlight(i) == units[i].pc \in {"get", "open", "write"}

\* asyncio.run() cancels every task still pending when main() has ended.  The
\* file operation a task was waiting for runs in aiofiles' thread pool, so
\* for each task it may or may not have been carried out (carried).
RunCancel ==
    /\ script = "genre_async"
    /\ mainPc = "raised"
    /\ \E i \in Units : InFlight(i)
    /\ units' = [i \in Units |->
                   IF InFlight(i) THEN [units[i] EXCEPT !.pc = "cancelled"]
                   ELSE units[i]]
    /\ \E carried \in SUBSET {i \in Units : units[i].pc \in {"open", "write"}} :
         gfiles' = [p \in Paths |->
                      LET i == CHOOSE j \in Units : FileName(j) = p
                      IN  IF i \in carried /\ units[i].pc = "open"
                          THEN [exists |-> TRUE, content |-> <<>>]
                          ELSE IF i \in carried /\ units[i].genre # "not_str"
                          THEN [exists |-> TRUE, content |-> <<units[i].genre>>]
                          ELSE gfiles[p]]
    /\ UNCHANGED <<script, numPages, numCores, mainPc, mainExc, mainI,
                   pagesPerCore, pagesForFinalCore, loops, file, file0, gfiles0,
                   hello, pool>>

(***************************************************************************)
(* say_hello of pytest_asyncio/hello_asyncio.py, called with the arguments *)
(* of its tests.                                                           *)
(***************************************************************************)
\* The variant without the type check.
ValidateEmptyOnly(name) == IF name.text = "" THEN "ValueError" ELSE "none"

\* The two checks of say_hello, in their order; the except clause re-raises.
Validate(name) ==
    IF name.type # "str" THEN "TypeError"
    ELSE IF name.text = "" THEN "ValueError"
    ELSE "none"

HelloFrame ==
    UNCHANGED <<script, numPages, numCores, mainPc, mainExc, mainI, pagesPerCore,
                pagesForFinalCore, loops, file, file0, units, gfiles, gfiles0,
                pool>>

\* The checks and, when they pass, print('Sleeping...') and the start of
\* asyncio.sleep(2).
HelloEnter ==
    /\ hello.pc = "called"
    /\ IF Validate(hello.name) # "none"
       THEN hello' = [hello EXCEPT !.pc = "raised", !.exc = Validate(hello.name)]
       ELSE hello' = [hello EXCEPT !.pc = "sleeping",
                                   !.out = Append(@, "Sleeping...")]
    /\ HelloFrame

\* The sleep ends: print(f"Hello, {name}!").
HelloWake ==
    /\ hello.pc = "sleeping"
    /\ hello' = [hello EXCEPT !.pc = "returned",
                              !.out = Append(@, "Hello, {name}!")]
    /\ HelloFrame

(***************************************************************************)
(* parallelism/threads.py: 16 calls of pow submitted to a                  *)
(* ThreadPoolExecutor, then a loop over as_completed(futures).             *)
(***************************************************************************)
\* The default max_workers of ThreadPoolExecutor(): min(32, cpu_count() + 4).
PoolSize(cpus) == IF cpus + 4 < 32 THEN cpus + 4 ELSE 32

PoolFrame ==
    UNCHANGED <<script, numPages, numCores, mainExc, pagesPerCore,
                pagesForFinalCore, loops, file, file0, units, gfiles, gfiles0,
                hello>>

\* with concurrent.futures.ThreadPoolExecutor() as executor:
PoolEnter ==
    /\ script = "pool_threads"
    /\ mainPc = "start"
    /\ pool' = [pool EXCEPT !.max_workers = PoolSize(numCores)]
    /\ mainPc' = "pool_submit"
    /\ UNCHANGED mainI
    /\ PoolFrame

\* executor.submit(pow, i, i) for the next i of pow_list: the call joins the
\* executor's work queue.
PoolSubmit ==
    /\ mainPc = "pool_submit"
    /\ mainI < NumFutures
    /\ mainI' = mainI + 1
    /\ mainPc' = (IF mainI + 1 = NumFutures THEN "pool_exit" ELSE "pool_submit")
    /\ UNCHANGED pool
    /\ PoolFrame

\* A worker thread that is free takes the oldest call of the work queue.
WorkerStart ==
    /\ script = "pool_threads"
    /\ pool.next < mainI
    /\ Cardinality(pool.running) < pool.max_workers
    /\ pool' = [pool EXCEPT !.running = @ \cup {pool.next}, !.next = @ + 1]
    /\ UNCHANGED <<mainPc, mainI>>
    /\ PoolFrame

\* pow(i, i) returns and the worker sets the result of future f.
WorkerFinish(f) ==
    /\ f \in pool.running
    /\ pool' = [pool EXCEPT !.running = @ \ {f}, !.finished = @ \cup {f}]
    /\ UNCHANGED <<mainPc, mainI>>
    /\ PoolFrame

\* The variant whose exit does not wait: shutdown(wait=False).
PoolDrained_NoWait == TRUE

\* shutdown(wait=True) joins the worker threads, which end when the work
\* queue is empty and their call has returned.
PoolDrained == pool.finished = Futures

\* The end of the with-block.
PoolExit ==
    /\ mainPc = "pool_exit"
    /\ PoolDrained
    /\ mainPc' = "as_completed"
    /\ UNCHANGED <<mainI, pool>>
    /\ PoolFrame

\* for f in as_completed(futures): print("okay").  The generator yields a
\* future of futures that is finished and that it has not yielded, in no
\* particular order, and waits while there is none.
AsCompletedYield ==
    /\ mainPc = "as_completed"
    /\ pool.yielded # Futures
    /\ \E f \in pool.finished \ pool.yielded :
         pool' = [pool EXCEPT !.yielded = @ \cup {f}, !.printed = @ + 1]
    /\ UNCHANGED <<mainPc, mainI>>
    /\ PoolFrame

\* The generator is exhausted when it has yielded every future.
AsCompletedEnd ==
    /\ mainPc = "as_completed"
    /\ pool.yielded = Futures
    /\ mainPc' = "returned"
    /\ UNCHANGED <<mainI, pool>>
    /\ PoolFrame

NextPool ==
    \/ PoolEnter
    \/ PoolSubmit
    \/ WorkerStart
    \/ \E f \in Futures : WorkerFinish(f)
    \/ PoolExit
    \/ AsCompletedYield
    \/ AsCompletedEnd

SpecPool == InitPool /\ [][NextPool]_vars

NextPartition == MainPartition \/ MainSubmit \/ MainSubmitFinal

SpecPartition == InitPartition /\ [][NextPartition]_vars

Next ==
    \/ MainPartition
    \/ MainSubmit
    \/ MainSubmitFinal
    \/ MainExitPool
    \/ MainWait
    \/ MainCall
    \/ MainAfterCall
    \/ \E w \in 1 .. Len(loops) : LoopGet(w)
    \/ \E w \in 1 .. Len(loops) : LoopWrite(w)
    \/ \E w \in 1 .. Len(loops) : LoopNewline(w)
    \/ \E w \in 1 .. Len(loops) : LoopClose(w)
    \/ \E i \in Units : UnitGet(i)
    \/ \E i \in Units : UnitOpen(i)
    \/ \E i \in Units : UnitWrite(i)
    \/ SyncCall
    \/ SyncReturn
    \/ ThreadStart
    \/ ThreadJoin
    \/ GatherStart
    \/ GatherReturn
    \/ GatherRaise
    \/ RunCancel
    \/ HelloEnter
    \/ HelloWake

Spec == Init /\ [][Next]_vars

\* Every process, thread and task that can take a step is eventually run, and
\* every request is eventually answered.
FairSpec == Spec /\ WF_vars(Next)

(***************************************************************************)
(* Observations used by the properties.                                    *)
(***************************************************************************)
\* What the run has appended to the shared file.
Appended == SubSeq(file, Len(file0) + 1, Len(file))

\* The characters of the file that loop w wrote, in file order.
Written(w) == SelectSeq(file, LAMBDA c : c.w = w)

\* The first k values of loop w, each followed by its tab.
RECURSIVE ExpectedText(_, _)
ExpectedText(w, k) ==
    IF k = 0 THEN <<>> ELSE ExpectedText(w, k - 1) \o UnitText(w, k - 1)

RECURSIVE SumPages(_)
SumPages(s) == IF s = <<>> THEN 0 ELSE Head(s).num_pages + SumPages(Tail(s))

AllLoopsDone == \A w \in 1 .. Len(loops) : loops[w].pc = "done"

SomeLoopRaised == \E w \in 1 .. Len(loops) : loops[w].exc # "none"

SomeUnitRaised == \E i \in Units : units[i].exc # "none"

\* Unit i takes its next step, successfully.
UnitAdvance(i) ==
    /\ UnitGet(i) \/ UnitOpen(i) \/ UnitWrite(i)
    /\ units'[i].exc = "none"
    /\ units'[i].genre # "not_str"

\* s is a prefix of t.
IsPrefix(s, t) == Len(s) <= Len(t) /\ SubSeq(t, 1, Len(s)) = s

\* main() has submitted every task of the partition.
Submitted == mainPc \in {"exit_pool", "wait", "returned"}

(***************************************************************************)
(* C1.  For every total N and process count C with 1 <= C <= N, main()     *)
(* gives each of the first C-1 submitted tasks floor(N/C) units and the    *)
(* last task N - (C-1)*floor(N/C) units, so that the shares sum to N.      *)
(* The source's formula breaks it, e.g. for N = 3, C = 2.                  *)
(***************************************************************************)
C1_PartitionRule ==
    (Submitted /\ 1 <= numCores /\ numCores <= numPages) =>
        /\ Len(loops) = numCores
        /\ \A w \in 1 .. (numCores - 1) :
               loops[w].num_pages = numPages \div numCores
        /\ loops[numCores].num_pages =
               numPages - (numCores - 1) * (numPages \div numCores)
        /\ SumPages(loops) = numPages

(***************************************************************************)
(* C2.  A batch run of a shared-file script in which every fetch succeeds  *)
(* appends exactly N tab-terminated, non-empty values to the file.  The    *)
(* process-split scripts break it through the partition of C1.             *)
(***************************************************************************)
C2_ExactlyNValues ==
    (script \in SharedFileScripts /\ mainPc = "returned" /\ AllLoopsDone) =>
        /\ Cardinality(PositionsOf(Appended, "\t")) = numPages
        /\ \A p \in PositionsOf(Appended, "\t") :
               p > 1 /\ Appended[p - 1].ch \notin {"\t", "\n"}

(***************************************************************************)
(* C3.  In the OS-level parallel strategies (the threads of                *)
(* concurrency/threads.py, the process pools) a fatal failure of a unit or *)
(* worker reaches the caller: the fan-out does not complete as if it had   *)
(* succeeded.  The code drops the failure: join() and wait() return        *)
(* normally and the script exits with 0.                                   *)
(***************************************************************************)
C3_FailurePropagates ==
    (script \in ProcessSplitScripts \cup {"genre_threads"} /\ mainPc = "returned") =>
        ~SomeLoopRaised /\ ~SomeUnitRaised

(***************************************************************************)
(* C4.  In every get_and_scrape_pages loop, when fetch k gets a status of  *)
(* 400 or more the loop raises; no value of unit k or of a later unit and  *)
(* no newline is written; the k values of the earlier units stay in the    *)
(* file.                                                                   *)
(***************************************************************************)
C4_AbortKeepsEarlierValues ==
    \A w \in 1 .. Len(loops) :
        loops[w].exc = "HTTPError" =>
            /\ loops[w].pc \in {"closing", "raised"}
            /\ Written(w) \o loops[w].buf = ExpectedText(w, loops[w].k)
            /\ loops[w].pc = "raised" =>
                   /\ Written(w) = ExpectedText(w, loops[w].k)
                   /\ script \in SingleLoopScripts /\ mainPc # "call" =>
                          mainPc = "raised"

\* A loop has raised on the status of its third fetch, after two values.
C4_Witness ==
    \E w \in 1 .. Len(loops) :
        /\ loops[w].exc = "HTTPError"
        /\ loops[w].pc = "raised"
        /\ loops[w].k = 2
        /\ loops[w].k < loops[w].num_pages

(***************************************************************************)
(* C5.  No two units' writes interleave in the shared file: in every       *)
(* reachable content, each character of a value lies in a contiguous,      *)
(* complete copy of that value followed by its own tab, although every     *)
(* worker writes through its own buffered handle and takes no lock.        *)
(***************************************************************************)
C5_NoInterleaving ==
    \A p \in 1 .. Len(Appended) :
        Appended[p].ch # "\n" =>
            LET v == UnitText(Appended[p].w, Appended[p].k)
            IN  \E q \in 1 .. p :
                    /\ p <= q + Len(v) - 1
                    /\ q + Len(v) - 1 <= Len(Appended)
                    /\ SubSeq(Appended, q, q + Len(v) - 1) = v

\* Raw writes of two workers alternate in the file: a worker wrote, another
\* wrote, and the first wrote again.
C5_Witness ==
    \E p1, p2, p3 \in 1 .. Len(Appended) :
        /\ p1 < p2
        /\ p2 < p3
        /\ Appended[p1].w = Appended[p3].w
        /\ Appended[p1].w # Appended[p2].w

(***************************************************************************)
(* C6 as stated.  The output of a successful batch ends with exactly one   *)
(* newline, written after all N units: one newline in total, and no value  *)
(* after it.  A process-split batch of two workers refutes it.             *)
(***************************************************************************)
C6_SingleTrailingNewline ==
    (script \in SharedFileScripts /\ mainPc = "returned" /\ AllLoopsDone) =>
        PositionsOf(Appended, "\n") = {Len(Appended)}

(***************************************************************************)
(* C6 as amended.  Every get_and_scrape_pages call that ends without an    *)
(* exception has written exactly one newline, as its last character and    *)
(* after all of its own values, and no other call's newline is in the file *)
(* (a call that raises writes none); a successful batch therefore holds    *)
(* one newline per call and ends with a newline: exactly one, at the very  *)
(* end, in the single-loop scripts, and one per worker in the              *)
(* process-split scripts.                                                  *)
(***************************************************************************)
C6_OneNewlinePerLoop ==
    script \in SharedFileScripts =>
        /\ \A w \in 1 .. Len(loops) :
               IF loops[w].pc = "done"
               THEN Written(w) = ExpectedText(w, loops[w].num_pages)
                                   \o Tagged(w, loops[w].num_pages, <<"\n">>)
               ELSE PositionsOf(Written(w), "\n") = {}
        /\ (mainPc = "returned" /\ AllLoopsDone) =>
               /\ Cardinality(PositionsOf(Appended, "\n")) = Len(loops)
               /\ Appended[Len(Appended)].ch = "\n"
               /\ script \in SingleLoopScripts =>
                      PositionsOf(Appended, "\n") = {Len(Appended)}

\* A successful process-split batch whose file holds a value after a newline.
C6_Witness ==
    /\ script \in ProcessSplitScripts
    /\ mainPc = "returned"
    /\ AllLoopsDone
    /\ \E p, q \in 1 .. Len(Appended) :
           p < q /\ Appended[p].ch = "\n" /\ Appended[q].ch \notin {"\t", "\n"}

(***************************************************************************)
(* C7.  Every fan-out returns to its caller only after all of its units    *)
(* have completed: the thread script passes its join loop only after all 5 *)
(* threads ended, gather() returns only after all 5 coroutines finished,   *)
(* the process-split main() returns only after every submitted task ended, *)
(* and the sequential loops return only after their last unit; when no     *)
(* unit fails, each of them eventually returns under fair scheduling.      *)
(***************************************************************************)
AsyncLoopScripts == {"asyncio_only", "asyncio_with_multiprocessing"}

FanOutScripts == SharedFileScripts \cup GenreScripts

C7_AllEnded ==
    (script \in FanOutScripts /\ mainPc = "returned") =>
        /\ script \in GenreScripts =>
               \A i \in Units : units[i].pc \in {"done", "raised"}
        /\ script \in {"genre_sync", "genre_async"} =>
               \A i \in Units : units[i].pc = "done"
        /\ script \in ProcessSplitScripts =>
               Len(loops) = numCores /\ \A w \in 1 .. Len(loops) : Finished(w)
        /\ script \in SingleLoopScripts =>
               Len(loops) = 1 /\ loops[1].pc = "done"

C8_ValidatesFirst ==
    script = "hello" =>
        /\ hello.name.type # "str" =>
               /\ hello.pc \in {"called", "raised"}
               /\ hello.out = <<>>
               /\ hello.pc = "raised" => hello.exc = "TypeError"
        /\ (hello.name.type = "str" /\ hello.name.text = "") =>
               /\ hello.pc \in {"called", "raised"}
               /\ hello.out = <<>>
               /\ hello.pc = "raised" => hello.exc = "ValueError"
        /\ (hello.name.type = "str" /\ hello.name.text # "") =>
               /\ hello.exc = "none"
               /\ hello.pc \in {"called", "sleeping", "returned"}
               /\ hello.pc = "called" => hello.out = <<>>
               /\ hello.pc = "sleeping" => hello.out = <<"Sleeping...">>
               /\ hello.pc = "returned" =>
                      hello.out = <<"Sleeping...", "Hello, {name}!">>

\* say_hello(19) has raised TypeError.
C8_Witness ==
    /\ hello.name.type = "int"
    /\ hello.pc = "raised"
    /\ hello.exc = "TypeError"

(***************************************************************************)
(* C9.  With the fetch-extract step a deterministic stub (Title, Genre),   *)
(* every strategy produces the set of values the sequential run over the   *)
(* same input produces: the values of units 0 .. N-1.  The process-split   *)
(* scripts break it through the partition of C1.                           *)
(***************************************************************************)
C9_SameValueSet ==
    (mainPc = "returned" /\ ~SomeLoopRaised /\ ~SomeUnitRaised) =>
        /\ script \in SharedFileScripts =>
               ValuesOf(Appended, <<>>) = {Title(g) : g \in 0 .. (numPages - 1)}
        /\ script \in GenreScripts =>
               {gfiles[p].content : p \in Paths} = {<<Genre(i)>> : i \in Units}

(***************************************************************************)
(* C10.  For N = 100 and C = 8 main() submits 8 tasks, the first 7 with 12 *)
(* units each and the last with 16 units, 100 units in total.              *)
(***************************************************************************)
C10_Partition100By8 ==
    (numPages = NUM_PAGES /\ numCores = 8 /\ Submitted) =>
        /\ Len(loops) = 8
        /\ \A w \in 1 .. 7 : loops[w].num_pages = 12
        /\ loops[8].num_pages = 16
        /\ SumPages(loops) = 100

\* main() has submitted the last task of the split of 100 pages over 8 cores.
C10_Witness ==
    /\ numPages = 100
    /\ numCores = 8
    /\ Len(loops) = 8
    /\ mainPc = "exit_pool"

(***************************************************************************)
(* C11 as stated.  The formula can double-count the remainder when N is an *)
(* exact multiple of C: there are N and C, C dividing N, for which the     *)
(* shares main() assigns sum to more than N.  No such pair exists up to    *)
(* N = NUM_PAGES.                                                          *)
(***************************************************************************)
C11_DoubleCountsSomeMultiple ==
    script \in ProcessSplitScripts =>
        \E n \in 1 .. NUM_PAGES, c \in 1 .. MaxPartCores :
            /\ c <= n
            /\ n % c = 0
            /\ (c - 1) * PAGES_PER_CORE(n, c) + PAGES_FOR_FINAL_CORE(n, c) > n

(***************************************************************************)
(* C11 as amended.  The shares main() assigns never sum to more than N,    *)
(* and when C divides N they sum to exactly N, every task getting N/C: the *)
(* formula counts no remainder twice; it can only lose units, when         *)
(* N % floor(N/C) is smaller than N % C.                                   *)
(***************************************************************************)
C11_NeverMoreThanN ==
    Submitted =>
        /\ SumPages(loops) <= numPages
        /\ SumPages(loops) =
               numPages - ((numPages % numCores)
                           - (numPages % (numPages \div numCores)))
        /\ numPages % numCores = 0 =>
               /\ SumPages(loops) = numPages
               /\ \A w \in 1 .. Len(loops) :
                       loops[w].num_pages = numPages \div numCores

\* main() has submitted the tasks of a total that several processes divide.
C11_Witness ==
    /\ Submitted
    /\ numCores = 6
    /\ numPages = 96
    /\ Len(loops) = 6

(***************************************************************************)
(* C12.  In the genre scripts distinct units are given distinct paths, and *)
(* every file only ever holds what it held before the run, nothing, or the *)
(* value of its own unit; after a batch of 5 units that all succeeded, in  *)
(* the sequential, the thread and the asyncio script alike, each of the 5  *)
(* files exists and holds exactly the one value of its unit, whatever the  *)
(* files held before.                                                      *)
(***************************************************************************)
C12_OneValuePerFile ==
    script \in GenreScripts =>
        /\ \A i, j \in Units : i # j => FileName(i) # FileName(j)
        /\ \A i \in Units :
               gfiles[FileName(i)].content \in
                   {gfiles0[FileName(i)].content, <<>>, <<Genre(i)>>}
        /\ (mainPc = "returned" /\ \A i \in Units : units[i].pc = "done") =>
               \A i \in Units :
                   /\ gfiles[FileName(i)].exists
                   /\ Len(gfiles[FileName(i)].content) = 1
                   /\ gfiles[FileName(i)].content[1] = Genre(i)

\* gather() has returned over files that each held two values before the run.
C12_Witness ==
    /\ script = "genre_async"
    /\ mainPc = "returned"
    /\ gfiles0 = OldFiles
    /\ \A i \in Units : units[i].pc = "done"

(***************************************************************************)
(* C13.  Writes to the shared output file never truncate or alter what is  *)
(* there: every step of every strategy, in runs that succeed and in runs   *)
(* that fail, leaves the file with its content before the step as a prefix,*)
(* so the content the file had before the run is a prefix of its content   *)
(* at every moment of the run and after it.                                *)
(***************************************************************************)
C13_PriorContentIsPrefix ==
    /\ [](IsPrefix(file0, file))
    /\ [][IsPrefix(file, file')]_vars

\* A run over a file that held a line has appended to it, and a loop of the
\* run has failed.
C13_Witness ==
    /\ file0 = OldLine
    /\ Len(file) > Len(file0)
    /\ \E w \in 1 .. Len(loops) : loops[w].pc = "raised"

(***************************************************************************)
(* C14.  In concurrency/async.py a failed unit aborts the batch at once:   *)
(* whenever a task has raised while main() awaits gather(), main() can     *)
(* raise in the very next step, whatever the other tasks are doing; main() *)
(* never returns normally once a task has raised, it ends raised with the  *)
(* exception of a failed task, and under fair scheduling it does end so.   *)
(* The tasks in flight at that moment are cancelled, each with its file    *)
(* written or not.                                                         *)
(***************************************************************************)
C14_RaisesAtOnce ==
    script = "genre_async" =>
        /\ (mainPc = "gather" /\ \E i \in Units : units[i].pc = "raised") =>
               ENABLED GatherRaise
        /\ SomeUnitRaised => mainPc \in {"gather", "raised"}
        /\ mainPc = "raised" =>
               \E i \in Units : units[i].pc = "raised" /\ mainExc = units[i].exc
        /\ \A i \in Units :
               units[i].pc = "cancelled" => mainPc = "raised"

C14_AbortsBatch ==
    /\ []C14_RaisesAtOnce
    /\ (script = "genre_async" /\ SomeUnitRaised) ~> (mainPc = "raised")

\* main() has raised while tasks were in flight: one of them has written its
\* file, another has left its file as it was, a third has not ended the
\* request.
C14_Witness ==
    /\ script = "genre_async"
    /\ mainPc = "raised"
    /\ \E i, j \in Units :
           /\ units[i].pc = "cancelled"
           /\ gfiles[FileName(i)].content = <<Genre(i)>>
           /\ units[j].pc = "cancelled"
           /\ units[j].genre # "none"
           /\ gfiles[FileName(j)] = gfiles0[FileName(j)]
           /\ gfiles0[FileName(j)].exists

(***************************************************************************)
(* C15.  A unit whose response body is malformed fails fatally and leaves  *)
(* its output target unmodified: a loop that met a page without an h1 has  *)
(* raised with nothing of that unit written, and the file of a genre unit  *)
(* that received JSON of another shape than a string is as it was before   *)
(* the run, neither created nor truncated.  write_genre breaks the second  *)
(* part: it opens the file with "w" before write() rejects the value.      *)
(***************************************************************************)
C15_MalformedLeavesTarget ==
    /\ \A w \in 1 .. Len(loops) :
           (loops[w].resp = "no_h1" /\ loops[w].pc # "page") =>
               /\ loops[w].exc = "AttributeError"
               /\ loops[w].pc \in {"closing", "raised"}
               /\ Written(w) \o loops[w].buf = ExpectedText(w, loops[w].k)
    /\ \A i \in Units :
           units[i].genre = "not_str" =>
               /\ units[i].pc = "raised" => units[i].exc = "TypeError"
               /\ gfiles[FileName(i)] = gfiles0[FileName(i)]

(***************************************************************************)
(* C16.  In concurrency/async.py all 5 units are launched together, and a  *)
(* unit suspended at an I/O wait lets the others proceed: while main()     *)
(* awaits gather() no unit is left unstarted, and every unit in flight can *)
(* take its next step at once, wherever the other units stand, and take it *)
(* successfully unless its body is not a string.  Hence all 5 units are in *)
(* flight together, any of the units in flight can be the next to          *)
(* complete, and so the units can complete in every order.                 *)
(***************************************************************************)
C16_SuspendedUnitsLetOthersRun ==
    (script = "genre_async" /\ mainPc = "gather") =>
        \A i \in Units :
            /\ units[i].pc # "idle"
            /\ InFlight(i) => ENABLED (UnitGet(i) \/ UnitOpen(i) \/ UnitWrite(i))
            /\ (InFlight(i) /\ units[i].genre # "not_str") =>
                   ENABLED UnitAdvance(i)

\* All 5 units are in flight at once, later units ahead of earlier ones.
C16_Witness ==
    /\ script = "genre_async"
    /\ mainPc = "gather"
    /\ units[0].pc = "get"
    /\ units[1].pc = "get"
    /\ units[2].pc = "open"
    /\ units[3].pc = "write"
    /\ units[4].pc = "write"

(***************************************************************************)
(* C17.  The asyncio get_and_scrape_pages never has more than one unit in  *)
(* flight per process: in every loop of asyncio_only.py and of             *)
(* asyncio_with_multiprocessing.py the GETs issued are at most one ahead   *)
(* of the values written, they are one ahead only while the page of that   *)
(* GET waits to be written or the unit has failed, and the values the loop *)
(* has written are those of its units 0 .. k-1 in fetch order.             *)
(***************************************************************************)
C17_OneUnitInFlight ==
    script \in AsyncLoopScripts =>
        \A w \in 1 .. Len(loops) :
            /\ loops[w].gets \in {loops[w].k, loops[w].k + 1}
            /\ loops[w].gets = loops[w].k + 1 <=>
                   (loops[w].pc = "page" \/ loops[w].exc # "none")
            /\ SelectSeq(Written(w) \o loops[w].buf, LAMBDA c : c.ch # "\n")
                   = ExpectedText(w, loops[w].k)

\* Two workers of the asyncio process pool each have a GET answered and not
\* yet written, one of them its second after one value.
C17_Witness ==
    /\ script = "asyncio_with_multiprocessing"
    /\ \E v, w \in 1 .. Len(loops) :
           /\ v # w
           /\ loops[v].pc = "page"
           /\ loops[w].pc = "page"
           /\ loops[w].k = 1
           /\ loops[w].gets = 2

(***************************************************************************)
(* C18.  In both process-split scripts the partition raises                *)
(* ZeroDivisionError exactly when the process count exceeds the total      *)
(* (floor(N/C) = 0, N = 0 included), and it raises before the pool exists: *)
(* main() has then ended with no task submitted and the file as it was.    *)
(***************************************************************************)
C18_ZeroDivisionWhenCoresExceedPages ==
    (script \in ProcessSplitScripts /\ mainPc # "start") =>
        /\ mainExc = "ZeroDivisionError" <=> numCores > numPages
        /\ numCores > numPages <=> numPages \div numCores = 0
        /\ mainExc = "ZeroDivisionError" =>
               /\ mainPc = "raised"
               /\ loops = <<>>
               /\ file = file0
        /\ mainExc # "ZeroDivisionError" => mainPc # "raised"

\* main() has raised on 2 pages for 3 processes, over a file that held a line.
C18_Witness ==
    /\ script = "multiprocessing_only"
    /\ numPages = 2
    /\ numCores = 3
    /\ mainExc = "ZeroDivisionError"
    /\ file = OldLine

(***************************************************************************)
(* C19.  In parallelism/threads.py the caller waits for all submitted      *)
(* units: once the with-block of the executor is left, all 16 futures have *)
(* been submitted and are finished and no call is running; the             *)
(* as_completed loop therefore always has a finished future to yield until *)
(* it has yielded all, it prints one line per future yielded and yields no *)
(* future twice, and when it ends it has yielded each of the 16 futures    *)
(* and printed 16 lines.                                                   *)
(***************************************************************************)
C19_WaitsForAllFutures ==
    script = "pool_threads" =>
        /\ mainPc \in {"as_completed", "returned"} =>
               /\ mainI = NumFutures
               /\ pool.finished = Futures
               /\ pool.running = {}
        /\ (mainPc = "as_completed" /\ pool.yielded # Futures) =>
               ENABLED AsCompletedYield
        /\ pool.yielded \subseteq pool.finished
        /\ pool.printed = Cardinality(pool.yielded)
        /\ mainPc = "returned" =>
               /\ pool.yielded = Futures
               /\ pool.printed = 16

\* The loop over as_completed has ended after 16 lines.
C19_Witness ==
    /\ script = "pool_threads"
    /\ mainPc = "returned"
    /\ pool.printed = 16
    /\ Cardinality(pool.yielded) = 16

====
